---------------------------- MODULE Spec2Model ----------------------------
(***************************************************************************)
(* Model of the three revisions of the list generator:                     *)
(*   "doh"  src/src/domain_processor.py       DoH resolver, address list   *)
(*   "sys"  src/generate_fwd_list.py          system resolver, address list*)
(*   "fwd"  src/.github/workflows/generate_fwd_list.py   DNS forwarding    *)
(* A Python str is a sequence of characters; a character is a one-letter   *)
(* string for printable ASCII and the usual escapes, and Chr(n) otherwise. *)
(***************************************************************************)
EXTENDS Integers, Sequences, FiniteSets, TLC

VARIABLES variant, pc, b64_content, raw_content, decoded_content, domains,
          idx, rsc_content, resolved_ips, count, output_file, exit_code,
          outcomes

vars == <<variant, pc, b64_content, raw_content, decoded_content, domains,
          idx, rsc_content, resolved_ips, count, output_file, exit_code,
          outcomes>>

(***************************************************************************)
(* Characters                                                              *)
(***************************************************************************)
LowerSeq == <<"a","b","c","d","e","f","g","h","i","j","k","l","m",
              "n","o","p","q","r","s","t","u","v","w","x","y","z">>

UpperSeq == <<"A","B","C","D","E","F","G","H","I","J","K","L","M",
              "N","O","P","Q","R","S","T","U","V","W","X","Y","Z">>

DigitSeq == <<"0","1","2","3","4","5","6","7","8","9">>

\* printable ASCII 32..126, in code point order (the backquote, which a
\* string literal cannot hold, under its code point name)
PrintableSeq ==
    <<" ","!","\"","#","$","%","&","'","(",")","*","+",",","-",".","/">> \o
    DigitSeq \o <<":",";","<","=",">","?","@">> \o UpperSeq \o
    <<"[","\\","]","^","_","U+96">> \o LowerSeq \o <<"{","|","}","~">>

Range(s) == {s[i] : i \in 1..Len(s)}

Lower == Range(LowerSeq)

Upper == Range(UpperSeq)

AsciiDigit == Range(DigitSeq)

\* chr(n): the character with code point n
Chr(n) ==
    IF n >= 32 /\ n <= 126 THEN PrintableSeq[n - 31]
    ELSE IF n = 10 THEN "\n"
    ELSE IF n = 13 THEN "\r"
    ELSE IF n = 9 THEN "\t"
    ELSE IF n = 12 THEN "\f"
    ELSE "U+" \o ToString(n)

\* ord(c) of a printable ASCII character or escape; used to order strings
Ord(c) ==
    IF c = "\n" THEN 10
    ELSE IF c = "\r" THEN 13
    ELSE IF c = "\t" THEN 9
    ELSE IF c = "\f" THEN 12
    ELSE IF \E n \in 1..Len(PrintableSeq) : PrintableSeq[n] = c
         THEN 31 + (CHOOSE n \in 1..Len(PrintableSeq) : PrintableSeq[n] = c)
    ELSE 1114112

\* str.isspace() characters removed by str.strip()
Whitespace ==
    {" ", "\t", "\n", "\r", "\f"} \cup
    {Chr(n) : n \in {11, 28, 29, 30, 31, 133, 160, 5760, 8232, 8233, 8239,
                     8287, 12288} \cup (8192..8202)}

\* line boundaries of str.splitlines(), "\r\n" apart
LineBreak ==
    {"\n", "\r", "\f"} \cup {Chr(n) : n \in {11, 28, 29, 30, 133, 8232, 8233}}

\* [a-zA-Z0-9-] of the domain pattern
LabelChar == Lower \cup Upper \cup AsciiDigit \cup {"-"}

\* [a-zA-Z0-9-.] of the domain pattern
DomainChar == LabelChar \cup {"."}

\* \d of a str pattern: every Unicode decimal digit; the ASCII digits and,
\* standing for the other Nd blocks, the Arabic-Indic digits U+0660..U+0669
ReDigit == AsciiDigit \cup {Chr(n) : n \in 1632..1641}

(***************************************************************************)
(* str helpers                                                             *)
(***************************************************************************)
startswith(s, p) ==
    Len(s) >= Len(p) /\ SubSeq(s, 1, Len(p)) = p

\* p in s, for two strs
contains(s, p) ==
    \E i \in 1..(Len(s) - Len(p) + 1) : SubSeq(s, i, i + Len(p) - 1) = p

\* a lower() that leaves the letters as they are
lower_char_kept(c) == c

lower_char(c) ==
    IF c \in Upper
    THEN LowerSeq[CHOOSE n \in 1..26 : UpperSeq[n] = c]
    ELSE c

\* str.lower() on the ASCII text the domain pattern can capture
lower(s) == SubSeq([i \in 1..Len(s) |-> lower_char(s[i])], 1, Len(s))

\* the first position at or after i whose character is in C, 0 for none
first_in(s, i, C) ==
    IF \E k \in i..Len(s) : s[k] \in C
    THEN CHOOSE k \in i..Len(s) :
             s[k] \in C /\ \A j \in i..(k - 1) : s[j] \notin C
    ELSE 0

\* the first position at or after i whose character is not in C, Len(s) + 1
\* for none
first_not_in(s, i, C) ==
    IF \E k \in i..Len(s) : s[k] \notin C
    THEN CHOOSE k \in i..Len(s) :
             s[k] \notin C /\ \A j \in i..(k - 1) : s[j] \in C
    ELSE Len(s) + 1

\* str.strip(): from the first to the last character that is not whitespace
strip(s) ==
    IF \A i \in 1..Len(s) : s[i] \in Whitespace THEN <<>>
    ELSE SubSeq(s, first_not_in(s, 1, Whitespace),
                CHOOSE k \in 1..Len(s) :
                    /\ s[k] \notin Whitespace
                    /\ \A j \in (k + 1)..Len(s) : s[j] \in Whitespace)

\* str.splitlines() from position i on: the lines of s without their
\* terminators; "\r\n" is one terminator, and a terminator that ends s
\* opens no further line
RECURSIVE splitlines_from(_, _)
splitlines_from(s, i) ==
    IF i > Len(s) THEN <<>>
    ELSE LET b == first_in(s, i, LineBreak)
         IN  IF b = 0 THEN <<SubSeq(s, i, Len(s))>>
             ELSE IF s[b] = "\r" /\ b < Len(s) /\ s[b + 1] = "\n"
             THEN <<SubSeq(s, i, b - 1)>> \o splitlines_from(s, b + 2)
             ELSE <<SubSeq(s, i, b - 1)>> \o splitlines_from(s, b + 1)

splitlines(s) == splitlines_from(s, 1)

\* s < t in Python's str order: a proper prefix comes first, otherwise the
\* first position where they differ decides, by code point
str_less(s, t) ==
    LET n == IF Len(s) < Len(t) THEN Len(s) ELSE Len(t)
    IN  IF \A i \in 1..n : s[i] = t[i] THEN Len(s) < Len(t)
        ELSE LET k == CHOOSE i \in 1..n :
                          s[i] # t[i] /\ \A j \in 1..(i - 1) : s[j] = t[j]
             IN  Ord(s[k]) < Ord(t[k])

\* sorted(list(set)): insertion of each member at its place
RECURSIVE sorted(_)
sorted(S) ==
    IF S = {} THEN <<>>
    ELSE LET m == CHOOSE x \in S : \A y \in S \ {x} : str_less(x, y)
         IN  <<m>> \o sorted(S \ {m})


\* None, told apart from every str
None == <<"None">>

(***************************************************************************)
(* The domain pattern of extract_domains: an optional prefix, "||" or     *)
(* ".*", then group 1, which is label+ "." tail+ with label = [a-zA-Z0-9-] *)
(* and tail = [a-zA-Z0-9-.] (first alternative) or label (second).         *)
(***************************************************************************)
\* index of the last character of the longest run of characters of class C
\* that starts at p; p - 1 when there is none
run_end(s, p, C) == first_not_in(s, p, C) - 1

\* end of a match of label+ "." tail+ at p, 0 when it fails there. A label
\* character is never ".", so the greedy label+ cannot give characters back.
group_alt_end(s, p, TailClass) ==
    LET e == run_end(s, p, LabelChar)
    IN  IF e >= p /\ e + 1 <= Len(s) /\ s[e + 1] = "."
           /\ run_end(s, e + 2, TailClass) >= e + 2
        THEN run_end(s, e + 2, TailClass)
        ELSE 0

\* end of group 1 at p: the first alternative, else the second
group_end(s, p) ==
    IF group_alt_end(s, p, DomainChar) # 0
    THEN group_alt_end(s, p, DomainChar)
    ELSE group_alt_end(s, p, LabelChar)

\* start of group 1 for a match that begins at i, 0 when none: the optional
\* prefix "||" or ".*" is tried first, then the empty prefix
group_start_at(s, i) ==
    IF i + 1 <= Len(s)
       /\ SubSeq(s, i, i + 1) \in {<<"|", "|">>, <<".", "*">>}
       /\ group_end(s, i + 2) # 0
    THEN i + 2
    ELSE IF group_end(s, i) # 0 THEN i
    ELSE 0

\* re.search(pattern, line).group(1), None when nothing matches: the match
\* at the leftmost position wins
re_search_domain(line) ==
    IF \E i \in 1..Len(line) : group_start_at(line, i) # 0
    THEN LET i == CHOOSE k \in 1..Len(line) :
                      /\ group_start_at(line, k) # 0
                      /\ \A j \in 1..(k - 1) : group_start_at(line, j) = 0
             p == group_start_at(line, i)
         IN  SubSeq(line, p, group_end(line, p))
    ELSE None

(***************************************************************************)
(* The address pattern: "^", four groups \d{1,3} with "\." between, "$"   *)
(***************************************************************************)
\* "$" matches at the end of the string and before a newline that ends it
at_dollar(s, i) ==
    \/ i = Len(s) + 1
    \/ i = Len(s) /\ s[i] = "\n"

\* groups k..4 of the pattern match from position i on
RECURSIVE quad_from(_, _, _)
quad_from(s, i, k) ==
    LET e == run_end(s, i, ReDigit)
    IN  /\ e >= i
        /\ e - i + 1 <= 3
        /\ IF k = 4 THEN at_dollar(s, e + 1)
           ELSE /\ e + 1 <= Len(s)
                /\ s[e + 1] = "."
                /\ quad_from(s, e + 2, k + 1)

\* re.match(pattern, s) is not None
re_match_ip(s) == quad_from(s, 1, 1)

(***************************************************************************)
(* extract_domains                                                         *)
(***************************************************************************)
LOCALHOST == <<"l","o","c","a","l","h","o","s","t">>

\* the markers a line is skipped for
skip_markers_doh == {"!", "[", "@"}

skip_markers_old == {"!", "["}

\* the body of the loop for one line: the domains it adds (none or one)
line_domains(raw_line, markers, reject_localhost) ==
    LET line == strip(raw_line)
        m == re_search_domain(line)
        domain == strip(lower(m))
        domain1 == IF startswith(domain, <<".">>) THEN Tail(domain)
                   ELSE domain
    IN  IF line = <<>> \/ line[1] \in markers THEN {}
        ELSE IF m = None THEN {}
        ELSE IF re_match_ip(domain) THEN {}
        ELSE IF reject_localhost /\ contains(domain, LOCALHOST) THEN {}
        ELSE IF domain1 # <<>> /\ "." \in Range(domain1) THEN {domain1}
        ELSE {}

extract_with(data_content, markers, reject_localhost) ==
    LET lines == splitlines(data_content)
    IN  sorted(UNION {line_domains(lines[i], markers, reject_localhost) :
                          i \in 1..Len(lines)})

\* src/src/domain_processor.py
extract_domains(data_content) ==
    extract_with(data_content, skip_markers_doh, TRUE)

\* src/generate_fwd_list.py
extract_domains_sys(data_content) ==
    extract_with(data_content, skip_markers_old, FALSE)

\* src/.github/workflows/generate_fwd_list.py
extract_domains_fwd(data_content) ==
    extract_with(data_content, skip_markers_old, FALSE)

(***************************************************************************)
(* fetch_and_decode_data: re.sub, base64.b64decode, bytes.decode           *)
(***************************************************************************)
\* re.sub(r'!.*\n', '', s) from position i on. The next match starts at
\* the first "!" and runs to the first newline after it, included, since
\* "." matches anything but a newline; a "!" that no newline follows starts
\* no match, and then no later "!" does either.
RECURSIVE re_sub_from(_, _)
re_sub_from(s, i) ==
    LET bang == first_in(s, i, {"!"})
        nl == first_in(s, bang + 1, {"\n"})
    IN  IF i > Len(s) THEN <<>>
        ELSE IF bang = 0 \/ nl = 0 THEN SubSeq(s, i, Len(s))
        ELSE SubSeq(s, i, bang - 1) \o re_sub_from(s, nl + 1)

re_sub_comments(b64_text) == re_sub_from(b64_text, 1)

B64Alphabet == UpperSeq \o LowerSeq \o DigitSeq \o <<"+", "/">>

B64Value(c) == (CHOOSE n \in 1..64 : B64Alphabet[n] = c) - 1

IsAscii(c) == c \in {Chr(n) : n \in 0..127}

\* binascii.a2b_base64 without strict mode reads s once, left to right.
\* Characters outside the alphabet are skipped. With quad_pos the number of
\* data characters read so far modulo 4, an "=" ends the data when it
\* completes the quad: at quad_pos 3, or at quad_pos 2 when another "="
\* came since the last data character. Data that stops inside a quad
\* without such padding is an error.
b64_quad_pos(s, i) ==
    Cardinality({j \in 1..(i - 1) : s[j] \in Range(B64Alphabet)}) % 4

b64_pad_ends(s, i) ==
    /\ s[i] = "="
    /\ \/ b64_quad_pos(s, i) = 3
       \/ /\ b64_quad_pos(s, i) = 2
          /\ \E j \in 1..(i - 1) :
                /\ s[j] = "="
                /\ \A k \in j..(i - 1) : s[k] \notin Range(B64Alphabet)

\* the position of the "=" that ends the data, Len(s) + 1 when none does
b64_end(s) ==
    IF \E i \in 1..Len(s) : b64_pad_ends(s, i)
    THEN CHOOSE i \in 1..Len(s) :
             b64_pad_ends(s, i) /\ \A j \in 1..(i - 1) : ~b64_pad_ends(s, j)
    ELSE Len(s) + 1

IsB64Char(c) == c \in Range(B64Alphabet)

\* the k-th byte written: byte k of its quad, from two neighbouring values
b64_byte(v, k) ==
    LET q == 4 * ((k - 1) \div 3)
        m == (k - 1) % 3
    IN  IF m = 0 THEN v[q + 1] * 4 + v[q + 2] \div 16
        ELSE IF m = 1 THEN (v[q + 2] % 16) * 16 + v[q + 3] \div 4
        ELSE (v[q + 3] % 4) * 64 + v[q + 4]

a2b_base64(s) ==
    LET e == b64_end(s)
        data == SelectSeq(SubSeq(s, 1, e - 1), IsB64Char)
        v == [i \in 1..Len(data) |-> B64Value(data[i])]
        r == Len(data) % 4
        n == 3 * (Len(data) \div 4) + (IF r >= 2 THEN r - 1 ELSE 0)
    IN  [ok |-> e <= Len(s) \/ r = 0,
         bytes |-> SubSeq([k \in 1..n |-> b64_byte(v, k)], 1, n)]

\* base64.b64decode(str): a str with a non-ASCII character is refused
b64decode(s) ==
    IF \E i \in 1..Len(s) : ~IsAscii(s[i])
    THEN [ok |-> FALSE, bytes |-> <<>>]
    ELSE a2b_base64(s)

\* number of continuation bytes after lead byte b, -1 for an invalid lead
utf8_follow(b) ==
    IF b < 128 THEN 0
    ELSE IF b >= 194 /\ b <= 223 THEN 1
    ELSE IF b >= 224 /\ b <= 239 THEN 2
    ELSE IF b >= 240 /\ b <= 244 THEN 3
    ELSE -1

\* the values the first continuation byte may take after lead byte b
utf8_second(b) ==
    IF b = 224 THEN 160..191
    ELSE IF b = 237 THEN 128..159
    ELSE IF b = 240 THEN 144..191
    ELSE IF b = 244 THEN 128..143
    ELSE 128..191

\* a byte that starts a character: anything but a continuation byte
utf8_lead(x) == x < 128 \/ x > 191

\* the character that starts at position i is well formed and ends where
\* the next one starts
utf8_valid_at(b, i) ==
    LET n == utf8_follow(b[i])
    IN  /\ n >= 0
        /\ i + n <= Len(b)
        /\ n >= 1 => b[i + 1] \in utf8_second(b[i])
        /\ \A j \in 2..n : b[i + j] \in 128..191
        /\ i + n + 1 <= Len(b) => utf8_lead(b[i + n + 1])

\* the code point of the character that starts at position i
utf8_code(b, i) ==
    LET n == utf8_follow(b[i])
    IN  IF n = 0 THEN b[i]
        ELSE IF n = 1 THEN (b[i] - 192) * 64 + (b[i + 1] - 128)
        ELSE IF n = 2
             THEN (b[i] - 224) * 4096 + (b[i + 1] - 128) * 64
                  + (b[i + 2] - 128)
        ELSE (b[i] - 240) * 262144 + (b[i + 1] - 128) * 4096
             + (b[i + 2] - 128) * 64 + (b[i + 3] - 128)

\* bytes.decode('utf-8'), strict: one character for every lead byte, and
\* UnicodeDecodeError unless every character is well formed
utf8_decode(b) ==
    LET IsLeadAt(i) == utf8_lead(b[i])
        leads == SelectSeq([i \in 1..Len(b) |-> i], IsLeadAt)
        ok == /\ b # <<>> => utf8_lead(b[1])
              /\ \A i \in 1..Len(b) : utf8_lead(b[i]) => utf8_valid_at(b, i)
    IN  [ok |-> ok,
         text |-> IF ok
                  THEN SubSeq([k \in 1..Len(leads) |-> Chr(utf8_code(b, leads[k]))],
                              1, Len(leads))
                  ELSE <<>>]

\* the part of fetch_and_decode_data after the body has arrived: the decoded
\* text, or None when an exception was raised and caught
decode_body(b64_text) ==
    LET raw == re_sub_comments(b64_text)
        bin == b64decode(raw)
        txt == utf8_decode(bin.bytes)
    IN  IF bin.ok /\ txt.ok THEN txt.text ELSE None

(***************************************************************************)
(* Configuration                                                           *)
(***************************************************************************)
\* ADDRESS_LIST_NAME
ADDRESS_LIST_NAME(v) == IF v = "doh" THEN "ProxyRouteIPs" ELSE "ProxyList"

\* COMMENT_PREFIX: "RouteIP-" in domain_processor.py, "ProxyIP-" in
\* generate_fwd_list.py
COMMENT_PREFIX(v) ==
    IF v = "doh" THEN <<"R","o","u","t","e","I","P","-">>
    ELSE <<"P","r","o","x","y","I","P","-">>

\* the bound of the slice [:63]
MAX_COMMENT == 63

FWD_COMMENT == "Domain_FwdList"

\* target_ip
FWD_TARGET == "8.8.8.8,8.8.4.4"

(***************************************************************************)
(* Values of a parsed JSON body                                            *)
(***************************************************************************)
PyStr(s) == [t |-> "str", v |-> s]

PyInt(n) == [t |-> "int", v |-> <<n>>]

PyNull == [t |-> "none", v |-> <<>>]

PyList(l) == [t |-> "list", v |-> l]

\* a dict as its items, <<key, value>>, in order
PyDict(items) == [t |-> "dict", v |-> items]

dict_has(d, key) == \E i \in 1..Len(d.v) : d.v[i][1] = key

dict_get(d, key) ==
    d.v[CHOOSE i \in 1..Len(d.v) :
            /\ d.v[i][1] = key
            /\ \A j \in (i + 1)..Len(d.v) : d.v[j][1] # key][2]

ANSWER == <<"A","n","s","w","e","r">>

\* 'Answer' in data: a key of a dict, an item of a list, a substring of a
\* str; TypeError for a number or null
answer_in(data) ==
    IF data.t = "dict" THEN [raised |-> FALSE, val |-> dict_has(data, "Answer")]
    ELSE IF data.t = "list"
         THEN [raised |-> FALSE,
               val |-> \E i \in 1..Len(data.v) : data.v[i] = PyStr(ANSWER)]
    ELSE IF data.t = "str"
         THEN [raised |-> FALSE, val |-> contains(data.v, ANSWER)]
    ELSE [raised |-> TRUE, val |-> FALSE]

\* the items `for answer in data['Answer']` runs over: subscripting a list
\* or a str by 'Answer' raises, and so does iterating a number or null
answers_of(data) ==
    IF data.t # "dict" THEN [raised |-> TRUE, items |-> <<>>]
    ELSE LET a == dict_get(data, "Answer")
         IN  IF a.t = "list" THEN [raised |-> FALSE, items |-> a.v]
             ELSE IF a.t = "str"
                  THEN [raised |-> FALSE,
                        items |-> [i \in 1..Len(a.v) |-> PyStr(<<a.v[i]>>)]]
             ELSE IF a.t = "dict"
                  THEN [raised |-> FALSE,
                        items |-> [i \in 1..Len(a.v) |-> PyStr(<<a.v[i][1]>>)]]
             ELSE [raised |-> TRUE, items |-> <<>>]

\* the loop over the answers from item i on: answer['type'] and
\* answer['data'] raise KeyError on a dict without the key and TypeError on
\* anything that is not a dict
RECURSIVE collect_a_records(_, _)
collect_a_records(items, i) ==
    IF i > Len(items) THEN [raised |-> FALSE, ips |-> <<>>]
    ELSE LET answer == items[i]
         IN  IF answer.t # "dict" \/ ~dict_has(answer, "type")
             THEN [raised |-> TRUE, ips |-> <<>>]
             ELSE IF dict_get(answer, "type") # PyInt(1)
             THEN collect_a_records(items, i + 1)
             ELSE IF ~dict_has(answer, "data")
             THEN [raised |-> TRUE, ips |-> <<>>]
             ELSE LET rest == collect_a_records(items, i + 1)
                  IN  [raised |-> rest.raised,
                       ips |-> IF rest.raised THEN <<>>
                               ELSE <<dict_get(answer, "data")>> \o rest.ips]

\* the failures requests reports: RequestException for a timeout, a
\* connection error and raise_for_status(), and the JSONDecodeError of
\* response.json(); doh_resolve catches exactly these
CaughtKinds == {"timeout", "connection_error", "http_error", "not_json"}

\* doh_resolve(domain) for the response the resolver gives: the list
\* returned, or raised when an exception leaves the function
doh_resolve(response) ==
    IF response.kind \in CaughtKinds THEN [raised |-> FALSE, ips |-> <<>>]
    ELSE LET data == response.body
             has == answer_in(data)
             ans == answers_of(data)
         IN  IF has.raised THEN [raised |-> TRUE, ips |-> <<>>]
             ELSE IF ~has.val THEN [raised |-> FALSE, ips |-> <<>>]
             ELSE IF ans.raised THEN [raised |-> TRUE, ips |-> <<>>]
             ELSE collect_a_records(ans.items, 1)

\* socket.getaddrinfo(domain, 80, AF_INET, SOCK_STREAM) and the list built
\* from it; every exception is caught by the loop of generate_mikrotik_rsc
sys_resolve(response) ==
    IF response.kind = "addresses"
    THEN [raised |-> FALSE, ips |-> response.body.v]
    ELSE [raised |-> FALSE, ips |-> <<>>]

(***************************************************************************)
(* generate_mikrotik_rsc                                                   *)
(***************************************************************************)
\* the slice taken one character too long
safe_comment_64(prefix, domain) ==
    SubSeq(prefix \o domain, 1,
           IF Len(prefix \o domain) < MAX_COMMENT + 1
           THEN Len(prefix \o domain) ELSE MAX_COMMENT + 1)

\* (COMMENT_PREFIX + domain)[:63]
safe_comment(prefix, domain) ==
    SubSeq(prefix \o domain, 1,
           IF Len(prefix \o domain) < MAX_COMMENT
           THEN Len(prefix \o domain) ELSE MAX_COMMENT)

\* the rsc_command of one address
rsc_command(v, ip, domain) ==
    [kind |-> "add", address |-> ip, list |-> ADDRESS_LIST_NAME(v),
     comment |-> safe_comment(COMMENT_PREFIX(v), domain)]

\* the header of the address-list script, up to the remove line
rsc_header(v) ==
    << [kind |-> "comment", text |-> "# IP Address List"],
       [kind |-> "comment", text |-> "# Generated at"],
       [kind |-> "comment", text |-> "# Source"],
       [kind |-> "context", text |-> "/ip firewall address-list"],
       [kind |-> "remove", list |-> ADDRESS_LIST_NAME(v)] >>

\* a loop that forgets what it has seen
seen_never(ip, resolved) == FALSE

\* `ip not in resolved_ips`, negated: the address was written before
seen(ip, resolved) == ip \in resolved

\* the check an address passes before a line is written for it: the
\* address pattern in domain_processor.py, none in generate_fwd_list.py
accepts(v, ip) == IF v = "doh" THEN re_match_ip(ip) ELSE TRUE

\* `for ip in ips` from item i on, on st = the script, the addresses seen
\* and the count so far. An ip that is not a str raises: TypeError of the
\* set lookup for a list or dict, of re.match for a number or null.
RECURSIVE add_ips(_, _, _, _, _)
add_ips(v, ips, i, domain, st) ==
    IF i > Len(ips) THEN st
    ELSE IF ips[i].t # "str" THEN [st EXCEPT !.raised = TRUE]
    ELSE LET ip == ips[i].v
         IN  IF ~seen(ip, st.resolved) /\ accepts(v, ip)
             THEN add_ips(v, ips, i + 1, domain,
                          [st EXCEPT !.rsc = Append(@, rsc_command(v, ip, domain)),
                                     !.resolved = @ \cup {ip},
                                     !.count = @ + 1])
             ELSE add_ips(v, ips, i + 1, domain, st)

\* generate_mikrotik_rsc of the forwarding revision: header, then one add
\* line for every domain in order
RECURSIVE fwd_lines(_, _)
fwd_lines(ds, i) ==
    IF i > Len(ds) THEN <<>>
    ELSE << [kind |-> "add", name |-> ds[i], type |-> "FWD",
             match_subdomain |-> "yes", forward_to |-> FWD_TARGET,
             comment |-> FWD_COMMENT] >>
         \o fwd_lines(ds, i + 1)

\* the header of the forwarding script
fwd_header ==
    << [kind |-> "comment", text |-> "# Domain FwdList DNS Static Entries"],
       [kind |-> "comment", text |-> "# Generated at"],
       [kind |-> "comment", text |-> "# Source"],
       [kind |-> "context", text |-> "/ip dns static"],
       [kind |-> "comment", text |-> "# clean old entries first"],
       [kind |-> "comment", text |-> "# /ip dns static remove"] >>

\* a loop that starts at the second domain
generate_fwd_rsc_skip(ds) == fwd_header \o fwd_lines(ds, 2)

generate_fwd_rsc(ds) == fwd_header \o fwd_lines(ds, 1)

(***************************************************************************)
(* Inputs of a run                                                         *)
(***************************************************************************)
\* longest Answer array, and longest getaddrinfo result, a resolver gives
MaxAnswers == 2

SeqsUpTo(S, n) == UNION {[1..k -> S] : k \in 0..n}

IP1 == <<"1",".","2",".","3",".","4">>

IP2 == <<"5",".","6",".","7",".","8">>

\* base64 of "||b.com\n||a.com\n"
BODY_TWO ==
    <<"f","H","x","i","L","m","N","v","b","Q","p","8","f","G","E","u","Y",
      "2","9","t","C","g","=","=">>

\* base64 of one rule, "||" and a domain of 59 characters (56 "a", then
\* ".io"), with its newline
BODY_LONG ==
    <<"f","H","x","h","Y","W","F","h","Y","W","F","h","Y","W","F","h","Y",
      "W","F","h","Y","W","F","h","Y","W","F","h","Y","W","F","h","Y","W",
      "F","h","Y","W","F","h","Y","W","F","h","Y","W","F","h","Y","W","F",
      "h","Y","W","F","h","Y","W","F","h","Y","W","F","h","Y","W","F","h",
      "Y","W","F","h","Y","W","F","h","Y","S","5","p","b","w","o","=">>

\* a comment line, then base64 of a rule for a domain of 55 characters
\* (52 "b", then ".io") and of the exception rule "@@||c.org"
BODY_EXCEPTION ==
    <<"!"," ","h","e","a","d","e","r","\n","f","H","x","i","Y","m","J","i",
      "Y","m","J","i","Y","m","J","i","Y","m","J","i","Y","m","J","i","Y",
      "m","J","i","Y","m","J","i","Y","m","J","i","Y","m","J","i","Y","m",
      "J","i","Y","m","J","i","Y","m","J","i","Y","m","J","i","Y","m","J",
      "i","Y","m","J","i","Y","m","J","i","Y","m","J","i","L","m","l","v",
      "C","k","B","A","f","H","x","j","L","m","9","y","Z","w","o","=","\n">>

\* base64 of "! x.y\n": a list without a rule
BODY_ONLY_COMMENT == <<"I","S","B","4","L","n","k","K">>

\* base64 of three bytes 0xFF, which are not UTF-8
BODY_NOT_UTF8 == <<"/","/","/","/">>

\* data that stops inside a quad: binascii.Error
BODY_BAD_PADDING == <<"Q","Q">>

BODY_EMPTY == <<>>

Bodies ==
    {BODY_TWO, BODY_LONG, BODY_EXCEPTION, BODY_ONLY_COMMENT, BODY_NOT_UTF8,
     BODY_BAD_PADDING, BODY_EMPTY}

Entry(type, data) == PyDict(<< <<"type", type>>, <<"data", data>> >>)

\* the objects an Answer array is made of
Entries ==
    { Entry(PyInt(1), PyStr(IP1)),
      Entry(PyInt(1), PyStr(IP2)),
      Entry(PyInt(5), PyStr(<<"c",".","e",".">>)),
      Entry(PyInt(1), PyStr(IP1 \o <<"\n">>)),
      Entry(PyInt(1), PyStr(<<"1",".","2",".","3">>)),
      Entry(PyInt(1), PyInt(5)),
      PyDict(<< <<"data", PyStr(IP1)>> >>),
      PyDict(<< <<"type", PyInt(1)>> >>) }

JsonBodies ==
    {PyDict(<< <<"Status", PyInt(0)>>, <<"Answer", PyList(l)>> >>) :
         l \in SeqsUpTo(Entries, MaxAnswers)}
    \cup { PyDict(<< <<"Status", PyInt(3)>> >>),
           PyDict(<< <<"Answer", PyNull>> >>),
           PyList(<<>>), PyInt(5), PyNull, PyStr(ANSWER) }

\* what the DoH request of one domain can come back with
DohResponses ==
    {[kind |-> k, body |-> PyNull] : k \in CaughtKinds}
    \cup {[kind |-> "json", body |-> b] : b \in JsonBodies}

\* what getaddrinfo can come back with: socket.gaierror, another exception
\* (UnicodeError of the idna codec, say), or AF_INET addresses, which
\* inet_ntop writes as dotted quads
SysResponses ==
    {[kind |-> k, body |-> PyNull] : k \in {"gaierror", "exception"}}
    \cup {[kind |-> "addresses", body |-> PyList(l)] :
              l \in SeqsUpTo({PyStr(IP1), PyStr(IP2)}, MaxAnswers) \ {<<>>}}

Responses(v) == IF v = "doh" THEN DohResponses ELSE SysResponses

resolve(v, response) ==
    IF v = "doh" THEN doh_resolve(response) ELSE sys_resolve(response)

(***************************************************************************)
(* main                                                                    *)
(***************************************************************************)
RUNNING == -1

Unopened == [opened |-> FALSE, content |-> <<>>]

\* a test for None alone, which lets the empty str and list through
not_none_only(x) == x = None

\* `not x` for a str, a list or None
not_(x) == x = None \/ x = <<>>

extract_for(v, text) ==
    IF v = "doh" THEN extract_domains(text)
    ELSE IF v = "sys" THEN extract_domains_sys(text)
    ELSE extract_domains_fwd(text)

Init ==
    /\ variant \in {"doh", "sys", "fwd"}
    /\ pc = "fetch"
    /\ b64_content = None
    /\ raw_content = None
    /\ decoded_content = None
    /\ domains = <<>>
    /\ idx = 0
    /\ rsc_content = <<>>
    /\ resolved_ips = {}
    /\ count = 0
    /\ output_file = Unopened
    /\ exit_code = RUNNING
    /\ outcomes = <<>>

\* fetch_and_decode_data(): the request fails, or a body arrives and is
\* stripped of comments and decoded; every exception gives None
fetch_and_decode_data ==
    /\ pc = "fetch"
    /\ \/ /\ decoded_content' = None
          /\ UNCHANGED <<b64_content, raw_content>>
       \/ \E body \in Bodies :
             /\ b64_content' = body
             /\ raw_content' = re_sub_comments(body)
             /\ decoded_content' = decode_body(body)
    /\ pc' = "decoded"
    /\ UNCHANGED <<variant, domains, idx, rsc_content, resolved_ips, count,
                   output_file, exit_code, outcomes>>

\* main: `if not decoded_content: sys.exit(1)`
main_no_data ==
    /\ pc = "decoded"
    /\ not_(decoded_content)
    /\ pc' = "exit"
    /\ exit_code' = 1
    /\ UNCHANGED <<variant, b64_content, raw_content, decoded_content,
                   domains, idx, rsc_content, resolved_ips, count,
                   output_file, outcomes>>

\* main: extract_domains, then `if not domains: sys.exit(1)`
main_extract ==
    /\ pc = "decoded"
    /\ ~not_(decoded_content)
    /\ domains' = extract_for(variant, decoded_content)
    /\ IF not_(domains')
       THEN pc' = "exit" /\ exit_code' = 1
       ELSE pc' = "generate" /\ exit_code' = exit_code
    /\ UNCHANGED <<variant, b64_content, raw_content, decoded_content, idx,
                   rsc_content, resolved_ips, count, output_file, outcomes>>

\* generate_mikrotik_rsc of the address-list revisions, up to the loop
generate_begin ==
    /\ pc = "generate"
    /\ variant \in {"doh", "sys"}
    /\ rsc_content' = rsc_header(variant)
    /\ count' = 0
    /\ resolved_ips' = {}
    /\ idx' = 1
    /\ pc' = "resolve"
    /\ UNCHANGED <<variant, b64_content, raw_content, decoded_content,
                   domains, output_file, exit_code, outcomes>>

\* one turn of `for domain in domains`: the resolver answers and the
\* addresses are added; an exception that nothing catches ends the process
\* with a traceback and status 1
resolve_domain ==
    /\ pc = "resolve"
    /\ idx <= Len(domains)
    /\ \E response \in Responses(variant) :
          LET res == resolve(variant, response)
              st0 == [rsc |-> rsc_content, resolved |-> resolved_ips,
                      count |-> count, raised |-> res.raised]
              st == IF res.raised THEN st0
                    ELSE add_ips(variant, res.ips, 1, domains[idx], st0)
          IN  /\ outcomes' = Append(outcomes, response)
              /\ rsc_content' = st.rsc
              /\ resolved_ips' = st.resolved
              /\ count' = st.count
              /\ IF st.raised
                 THEN pc' = "crashed" /\ exit_code' = 1 /\ idx' = idx
                 ELSE /\ idx' = idx + 1
                      /\ pc' = IF idx + 1 > Len(domains) THEN "write"
                               ELSE "resolve"
                      /\ exit_code' = exit_code
    /\ UNCHANGED <<variant, b64_content, raw_content, decoded_content,
                   domains, output_file>>

\* generate_mikrotik_rsc of the forwarding revision
generate_fwd ==
    /\ pc = "generate"
    /\ variant = "fwd"
    /\ rsc_content' = generate_fwd_rsc(domains)
    /\ count' = Len(domains)
    /\ idx' = Len(domains) + 1
    /\ pc' = "write"
    /\ UNCHANGED <<variant, b64_content, raw_content, decoded_content,
                   domains, resolved_ips, output_file, exit_code, outcomes>>

\* main: open(OUTPUT_FILE, 'w') and f.write(rsc_data); open can fail, which
\* leaves the file alone, and the write can fail, which leaves a part of
\* the script: nothing, or all but the end of it
write_output ==
    /\ pc = "write"
    /\ \/ /\ output_file' = [opened |-> TRUE, content |-> rsc_content]
          /\ exit_code' = 0
       \/ /\ output_file' = output_file
          /\ exit_code' = 1
       \/ \E k \in {0, Len(rsc_content) - 1} :
             /\ output_file' = [opened |-> TRUE,
                                content |-> SubSeq(rsc_content, 1, k)]
             /\ exit_code' = 1
    /\ pc' = "exit"
    /\ UNCHANGED <<variant, b64_content, raw_content, decoded_content,
                   domains, idx, rsc_content, resolved_ips, count, outcomes>>

Next ==
    \/ fetch_and_decode_data
    \/ main_no_data
    \/ main_extract
    \/ generate_begin
    \/ resolve_domain
    \/ generate_fwd
    \/ write_output

Spec == Init /\ [][Next]_vars

(***************************************************************************)
(* extract_domains on its own: the text is given, the function is applied  *)
(***************************************************************************)
\* most pieces a text is put together from
MaxTok == 4

Tokens ==
    { <<"|","|">>, <<".">>, <<"a",".","b">>, <<"B">>,
      <<"1",".","1",".","1",".","1">>, LOCALHOST, <<"@">>, <<"\n">> }

RECURSIVE Flatten(_)
Flatten(ss) == IF ss = <<>> THEN <<>> ELSE Head(ss) \o Flatten(Tail(ss))

\* the lines of the scenarios: a rule, an exception rule, a bare address, a
\* leading dot, a comment, a section header
SCENARIO_RULE == <<"|","|","e","x","a","m","p","l","e",".","c","o","m","^">>

SCENARIO_EXCEPTION ==
    <<"@","@","|","|","g","o","o","d",".","e","x","a","m","p","l","e",".","c","o","m","|">>

SCENARIO_ADDRESS == <<"1","9","2",".","1","6","8",".","1",".","1">>

SCENARIO_DOT == <<".","a","d","s",".","e","x","a","m","p","l","e",".","n","e","t">>

SCENARIO_COMMENT == <<"!"," ","s","e","e"," ","x",".","y">>

SCENARIO_SECTION == <<"[","A","u","t","o","P","r","o","x","y"," ","0",".","2",".","9","]">>

ExtractInputs ==
    {Flatten(t) : t \in SeqsUpTo(Tokens, MaxTok)}
    \cup {SCENARIO_RULE, SCENARIO_EXCEPTION, SCENARIO_ADDRESS, SCENARIO_DOT,
          SCENARIO_COMMENT, SCENARIO_SECTION}

ExtractInit ==
    /\ variant \in {"doh", "sys", "fwd"}
    /\ pc = "extract"
    /\ decoded_content \in ExtractInputs
    /\ domains = <<>>
    /\ b64_content = None
    /\ raw_content = None
    /\ idx = 0
    /\ rsc_content = <<>>
    /\ resolved_ips = {}
    /\ count = 0
    /\ output_file = Unopened
    /\ exit_code = RUNNING
    /\ outcomes = <<>>

apply_extract ==
    /\ pc = "extract"
    /\ domains' = extract_for(variant, decoded_content)
    /\ pc' = "extracted"
    /\ UNCHANGED <<variant, b64_content, raw_content, decoded_content, idx,
                   rsc_content, resolved_ips, count, output_file, exit_code,
                   outcomes>>

ExtractNext == apply_extract

SpecExtract == ExtractInit /\ [][ExtractNext]_vars

(***************************************************************************)
(* The decode step on its own: the body is given, the step is applied      *)
(***************************************************************************)
\* longest body
MaxRaw == 6

RawInputs == SeqsUpTo({"!", "Q", "\n"}, MaxRaw)

DecodeInit ==
    /\ variant \in {"doh", "sys", "fwd"}
    /\ pc = "fetch"
    /\ b64_content \in RawInputs
    /\ raw_content = None
    /\ decoded_content = None
    /\ domains = <<>>
    /\ idx = 0
    /\ rsc_content = <<>>
    /\ resolved_ips = {}
    /\ count = 0
    /\ output_file = Unopened
    /\ exit_code = RUNNING
    /\ outcomes = <<>>

apply_decode ==
    /\ pc = "fetch"
    /\ raw_content' = re_sub_comments(b64_content)
    /\ decoded_content' = decode_body(b64_content)
    /\ pc' = "decoded"
    /\ UNCHANGED <<variant, b64_content, domains, idx, rsc_content,
                   resolved_ips, count, output_file, exit_code, outcomes>>

DecodeNext == apply_decode

SpecDecode == DecodeInit /\ [][DecodeNext]_vars

(***************************************************************************)
(* Properties                                                              *)
(***************************************************************************)
IsAdd(l) == l.kind = "add"

IsRemove(l) == l.kind = "remove"

AddLines(rsc) == SelectSeq(rsc, IsAdd)

AddressList == variant \in {"doh", "sys"}

\* the first n characters of s, all of s when it is shorter
Take(s, n) == SubSeq(s, 1, IF Len(s) < n THEN Len(s) ELSE n)

\* four groups of one to three ASCII digits with dots between, nothing else
StrictDottedQuad(s) ==
    LET dots == {i \in 1..Len(s) : s[i] = "."}
        ends == dots \cup {Len(s) + 1}
    IN  /\ Cardinality(dots) = 3
        /\ \A i \in 1..Len(s) : s[i] \in AsciiDigit \cup {"."}
        /\ \A e \in ends :
              LET before == {d \in dots : d < e}
                  start == IF before = {} THEN 1
                           ELSE 1 + CHOOSE d \in before :
                                        \A x \in before : x <= d
              IN  e - start \in 1..3

\* the resolution of the k-th domain returned the address a
Returned(k, a) ==
    LET res == resolve(variant, outcomes[k])
    IN  /\ ~res.raised
        /\ \E n \in 1..Len(res.ips) : res.ips[n] = PyStr(a)

\* a resolution with response r failed: an error the resolver reports, or
\* a body that is not the JSON of an answer (not an object, an Answer that
\* is no array of objects with type and data, a data that is no string)
FailedResponse(v, r) ==
    \/ r.kind \notin {"json", "addresses"}
    \/ resolve(v, r).raised
    \/ \E n \in 1..Len(resolve(v, r).ips) : resolve(v, r).ips[n].t # "str"

\* a resolution with response r returned no address
EmptyResponse(v, r) == ~resolve(v, r).raised /\ resolve(v, r).ips = <<>>

\* C1: in the DoH revision a resolution that fails, whatever the failure
\* (timeout, transport error, HTTP status, a body that is not JSON or is
\* JSON of the wrong shape), adds no address for its domain and lets the
\* run go on to the next domain or to the write step.
C1_ResolveNeverAborts ==
    [][ ( /\ variant = "doh"
          /\ pc = "resolve"
          /\ outcomes' # outcomes
          /\ FailedResponse(variant, outcomes'[Len(outcomes')]) )
        => ( /\ pc' \in {"resolve", "write"}
             /\ idx' = idx + 1
             /\ rsc_content' = rsc_content ) ]_vars

\* C2: in the address-list revisions no address has two add lines, and the
\* comment of the line of an address is the prefixed, truncated name of the
\* first domain, in processing order, whose resolution returned it.
C2_OneLinePerAddress ==
    AddressList =>
        LET adds == AddLines(rsc_content)
        IN  /\ \A i, j \in 1..Len(adds) :
                  adds[i].address = adds[j].address => i = j
            /\ \A i \in 1..Len(adds) :
                  \E k \in 1..Len(outcomes) :
                      /\ Returned(k, adds[i].address)
                      /\ \A m \in 1..(k - 1) : ~Returned(m, adds[i].address)
                      /\ adds[i].comment =
                             Take(COMMENT_PREFIX(variant) \o domains[k], 63)

\* two domains returned the same address, the second one twice, and the
\* script has one line for it
C2_Witness ==
    /\ variant = "doh"
    /\ pc = "write"
    /\ Len(outcomes) = 2
    /\ Returned(1, IP1)
    /\ outcomes[2].body =
           PyDict(<< <<"Status", PyInt(0)>>,
                     <<"Answer", PyList(<< Entry(PyInt(1), PyStr(IP1)),
                                           Entry(PyInt(1), PyStr(IP1)) >>)>> >>)
    /\ Len(AddLines(rsc_content)) = 1

\* C3: a run whose fetch or decode failed, or whose list has no domain,
\* has exited with status 1 and never opened the output file; the file is
\* opened only once every domain has been processed, and what it then holds
\* comes from the finished script.
C3_NoOutputOnFatal ==
    /\ ( /\ pc \notin {"fetch", "decoded", "extract", "extracted"}
         /\ \/ decoded_content = None
            \/ decoded_content = <<>>
            \/ domains = <<>> )
       => (pc = "exit" /\ exit_code = 1 /\ output_file = Unopened)
    /\ output_file.opened
       => /\ pc = "exit"
          /\ domains # <<>>
          /\ idx = Len(domains) + 1
          /\ AddressList => Len(outcomes) = Len(domains)
          /\ \E k \in 0..Len(rsc_content) :
                 output_file.content = SubSeq(rsc_content, 1, k)
          /\ exit_code = 0 => output_file.content = rsc_content

\* a body arrived and was decoded, no domain was found in it, and the run
\* has ended
C3_Witness ==
    /\ pc = "exit"
    /\ exit_code = 1
    /\ b64_content = BODY_ONLY_COMMENT
    /\ decoded_content \notin {None, <<>>}
    /\ domains = <<>>
    /\ output_file = Unopened

\* the text without the lines that, trimmed, are blank or start with one of
\* the three markers
WithoutMarkerLines(text) ==
    LET lines == splitlines(text)
        Kept(l) == strip(l) # <<>> /\ strip(l)[1] \notin {"!", "[", "@"}
        kept == SelectSeq(lines, Kept)
    IN  Flatten([i \in 1..Len(kept) |-> kept[i] \o <<"\n">>])

\* C4: in every revision a line that, trimmed, is blank or starts with "!",
\* "[" or "@" adds nothing to the result of extract_domains, and the line
\* "@@||good.example.com|" alone gives no domain.
C4_MarkerLinesSkipped ==
    pc = "extracted" =>
        /\ domains = extract_for(variant, WithoutMarkerLines(decoded_content))
        /\ decoded_content = SCENARIO_EXCEPTION => domains = <<>>

\* C5: every entry extract_domains of domain_processor.py returns is not
\* empty, has a ".", has no upper-case letter, is no bare dotted quad, does
\* not contain "localhost" and does not begin with "." or "|"; the entries
\* are in strictly increasing order.
C5_ExtractedDomainsWellFormed ==
    (variant = "doh" /\ pc = "extracted") =>
        /\ \A i \in 1..Len(domains) :
              /\ domains[i] # <<>>
              /\ "." \in Range(domains[i])
              /\ Range(domains[i]) \cap Upper = {}
              /\ ~StrictDottedQuad(domains[i])
              /\ ~contains(domains[i], LOCALHOST)
              /\ domains[i][1] \notin {".", "|"}
        /\ \A i \in 1..(Len(domains) - 1) :
              /\ domains[i] # domains[i + 1]
              /\ str_less(domains[i], domains[i + 1])

\* a text with an upper-case letter, two rules and more, from which two
\* domains came
C5_Witness ==
    /\ variant = "doh"
    /\ pc = "extracted"
    /\ Range(decoded_content) \cap Upper # {}
    /\ Len(domains) = 2

\* C6: in the address-list revisions the address of every add line is a
\* dotted quad and nothing else, whatever the resolver returned.
C6_AddressesAreDottedQuads ==
    AddressList =>
        \A i \in 1..Len(rsc_content) :
            IsAdd(rsc_content[i]) => StrictDottedQuad(rsc_content[i].address)

\* C7: the forwarding revision renders a list of N domains as N add lines,
\* the i-th for the i-th domain.
C7_OneAddPerDomainInOrder ==
    (variant = "fwd" /\ pc \in {"write", "exit"} /\ domains # <<>>) =>
        LET adds == AddLines(rsc_content)
        IN  /\ Len(adds) = Len(domains)
            /\ \A i \in 1..Len(adds) : adds[i].name = domains[i]
            /\ \A i \in 1..(Len(domains) - 1) :
                  str_less(domains[i], domains[i + 1])

\* the forwarding script of a list of two domains is ready to be written
C7_Witness ==
    /\ variant = "fwd"
    /\ pc = "write"
    /\ Len(domains) = 2
    /\ Len(AddLines(rsc_content)) = 2

\* C8: in the address-list revisions the comment of every add line is the
\* first 63 characters of prefix + domain for a domain of the list, the
\* whole of it when it is no longer than that.
C8_CommentTruncated ==
    AddressList =>
        \A i \in 1..Len(rsc_content) :
            IsAdd(rsc_content[i]) =>
                /\ Len(rsc_content[i].comment) <= 63
                /\ \E k \in 1..Len(outcomes) :
                      LET full == COMMENT_PREFIX(variant) \o domains[k]
                      IN  /\ Returned(k, rsc_content[i].address)
                          /\ IF Len(full) > 63
                             THEN /\ Len(rsc_content[i].comment) = 63
                                  /\ rsc_content[i].comment = SubSeq(full, 1, 63)
                             ELSE rsc_content[i].comment = full

\* a line was written for a domain whose prefixed comment has 67
\* characters, and its comment has 63
C8_Witness ==
    /\ AddressList
    /\ pc = "write"
    /\ Len(COMMENT_PREFIX(variant) \o domains[1]) = 67
    /\ Len(AddLines(rsc_content)) >= 1
    /\ Len(AddLines(rsc_content)[1].comment) = 63

\* the body without its lines that begin with "!": position i goes when
\* the line it is in, which starts after the last newline before i, begins
\* with "!"
WithoutCommentLines(body) ==
    LET LineStart(i) ==
            IF \E j \in 1..(i - 1) : body[j] = "\n"
            THEN 1 + CHOOSE j \in 1..(i - 1) :
                         /\ body[j] = "\n"
                         /\ \A k \in (j + 1)..(i - 1) : body[k] # "\n"
            ELSE 1
        KeptAt(i) == body[LineStart(i)] # "!"
        kept == SelectSeq([i \in 1..Len(body) |-> i], KeptAt)
    IN  SubSeq([n \in 1..Len(kept) |-> body[kept[n]]], 1, Len(kept))

\* C9: what the decode step hands to the base64 decoder is the body without
\* exactly its lines that begin with "!", the last line included when it
\* has no newline, and with every other character kept.
C9_CommentLinesRemoved ==
    pc = "decoded" => raw_content = WithoutCommentLines(b64_content)

\* C10: the script of the address-list revisions has one remove line, ahead
\* of every add line, whatever the resolver returned; and a run in which
\* every resolution failed or returned no address still writes the script,
\* with its remove line and no add line, and exits with status 0 (an I/O
\* error of the write apart).
C10_RemoveOnceAndEmptyRunWrites ==
    AddressList =>
        /\ pc \in {"resolve", "write", "crashed"} \/ output_file.opened
           => /\ Len(SelectSeq(rsc_content, IsRemove)) = 1
              /\ \A i, j \in 1..Len(rsc_content) :
                    (IsRemove(rsc_content[i]) /\ IsAdd(rsc_content[j]))
                    => i < j
        /\ ( /\ outcomes # <<>>
             /\ \A k \in 1..Len(outcomes) :
                   \/ FailedResponse(variant, outcomes[k])
                   \/ EmptyResponse(variant, outcomes[k]) )
           => /\ pc # "crashed"
              /\ AddLines(rsc_content) = <<>>
              /\ (pc = "exit" /\ exit_code = 0)
                 => output_file = [opened |-> TRUE,
                                   content |-> rsc_header(variant)]

=============================================================================
